---- MODULE Spec2Model ----
(***************************************************************************)
(* Model of src/data_ingestor.py (format reader, per-format ingestors, ZIP *)
(* ingestor, factory, metadata persistence, entry point) and of the reload *)
(* step of src/data_loader.py.                                             *)
(*                                                                         *)
(* File names, extensions and paths are sequences of characters, so that   *)
(* endswith, startswith, splitext, basename and join are computed on the   *)
(* characters as Python computes them.                                     *)
(***************************************************************************)
EXTENDS Integers, Sequences, FiniteSets, TLC

VARIABLES data, extracted, artifact, last, main, runLog

vars == <<data, extracted, artifact, last, main, runLog>>

(***************************************************************************)
(* Bounds                                                                  *)
(***************************************************************************)
\* largest number of entries the source directory holds at once
MaxDirSize == 2

(***************************************************************************)
(* Strings                                                                 *)
(***************************************************************************)
\* str.endswith
EndsWith(s, suffix) ==
    /\ Len(s) >= Len(suffix)
    /\ SubSeq(s, Len(s) - Len(suffix) + 1, Len(s)) = suffix

\* str.startswith
StartsWith(s, prefix) ==
    /\ Len(s) >= Len(prefix)
    /\ SubSeq(s, 1, Len(prefix)) = prefix

\* index of the last occurrence of character c in s, 0 when there is none
RFind(s, c) ==
    LET hits == {i \in 1..Len(s) : s[i] = c}
    IN  IF hits = {} THEN 0 ELSE CHOOSE i \in hits : \A j \in hits : j <= i

\* os.path.basename: what follows the last separator
basename(path) == SubSeq(path, RFind(path, "/") + 1, Len(path))

\* os.path.dirname: what precedes the last separator
dirname(path) ==
    IF RFind(path, "/") = 0 THEN <<>> ELSE SubSeq(path, 1, RFind(path, "/") - 1)

\* os.path.join of a folder and an entry name
join(folder, name) == folder \o <<"/">> \o name

\* os.path.splitext(p)[1]: the extension starts at the last dot of the last
\* path component, unless only dots precede it in that component
splitext(p) ==
    LET sep == RFind(p, "/")
        dot == RFind(p, ".")
    IN  IF dot > sep /\ \E k \in (sep + 1)..(dot - 1) : p[k] # "."
        THEN SubSeq(p, dot, Len(p))
        ELSE <<>>

\* all orders in which a listing of the set S can come back (os.listdir
\* returns the entries in arbitrary order)
RECURSIVE Orders(_)
Orders(S) ==
    IF S = {} THEN {<<>>}
    ELSE UNION {{<<x>> \o rest : rest \in Orders(S \ {x})} : x \in S}

Range(s) == {s[i] : i \in 1..Len(s)}

(***************************************************************************)
(* Extensions                                                              *)
(***************************************************************************)
ext_zip     == <<".", "z", "i", "p">>
ext_csv     == <<".", "c", "s", "v">>
ext_xlsx    == <<".", "x", "l", "s", "x">>
ext_xls     == <<".", "x", "l", "s">>
ext_parquet == <<".", "p", "a", "r", "q", "u", "e", "t">>
ext_json    == <<".", "j", "s", "o", "n">>
ext_txt     == <<".", "t", "x", "t">>
ext_md      == <<".", "m", "d">>
ext_CSV     == <<".", "C", "S", "V">>
ext_none    == <<>>

\* the extension strings handed to the factory
Extensions ==
    {ext_zip, ext_csv, ext_xlsx, ext_xls, ext_parquet, ext_json, ext_txt,
     ext_md, ext_CSV, ext_none}

(***************************************************************************)
(* Folders (PathManager)                                                   *)
(***************************************************************************)
\* a folder is written as one symbol of the path
get_data_folder           == <<"data">>
get_extracted_data_folder == <<"extracted_data">>


(***************************************************************************)
(* File contents                                                           *)
(*                                                                         *)
(* A content is what a file holds: delimited text (with its delimiter,     *)
(* header and number of data rows), a JSON document, an Excel workbook or  *)
(* a Parquet file (with the table each encodes), a ZIP archive, or bytes   *)
(* no reader accepts.  Absent stands for "no file at this path".           *)
(***************************************************************************)
comma == <<",">>
tab   == <<"\t">>

c_id     == <<"i", "d">>
c_amount == <<"a", "m", "o", "u", "n", "t">>

Content(kind, sep, columns, row_count) ==
    [kind |-> kind, sep |-> sep, columns |-> columns, row_count |-> row_count]

Absent  == Content("absent", <<>>, <<>>, 0)
Corrupt == Content("corrupt", <<>>, <<>>, 0)
Archive == Content("zip", <<>>, <<>>, 0)

\* entry names of the source directory
n_sales   == <<"s", ".", "c", "s", "v">>
n_tsv     == <<"t", ".", "t", "x", "t">>
n_jtxt    == <<"j", ".", "t", "x", "t">>
n_json    == <<"d", ".", "j", "s", "o", "n">>
n_xlsx    == <<"b", ".", "x", "l", "s", "x">>
n_parquet == <<"p", ".", "p", "a", "r", "q", "u", "e", "t">>
n_bad     == <<"k", ".", "c", "s", "v">>
n_notes   == <<"n", ".", "m", "d">>
n_cache   == <<"_", "c", ".", "c", "s", "v">>
n_azip    == <<"a", ".", "z", "i", "p">>
n_bzip    == <<"b", ".", "z", "i", "p">>
n_ezip    == <<"e", ".", "z", "i", "p">>

\* entry names inside the archives
m_a      == <<"a", ".", "c", "s", "v">>
m_hidden == <<".", "h", ".", "c", "s", "v">>

\* what each source file holds when it is present
DataContent ==
    (n_sales   :> Content("text", comma, <<c_id, c_amount>>, 3)) @@
    (n_tsv     :> Content("text", tab, <<c_id, c_amount>>, 2)) @@
    (n_jtxt    :> Content("json", <<>>, <<c_id>>, 1)) @@
    (n_json    :> Content("json", <<>>, <<c_id, c_amount>>, 1)) @@
    (n_xlsx    :> Content("xlsx", <<>>, <<c_id>>, 2)) @@
    (n_parquet :> Content("parquet", <<>>, <<c_id, c_amount>>, 2)) @@
    (n_bad     :> Corrupt) @@
    (n_notes   :> Content("text", comma, <<c_id>>, 0)) @@
    (n_cache   :> Content("text", comma, <<c_id>>, 1)) @@
    (n_azip    :> Archive) @@
    (n_bzip    :> Archive) @@
    (n_ezip    :> Archive)

TopNames == DOMAIN DataContent

\* the members each archive holds: a.zip is the bundle of one CSV and one
\* note; b.zip holds a corrupt a.csv, a tab-delimited text and a hidden
\* file; e.zip has no member
Members ==
    (n_azip :> ((m_a :> Content("text", comma, <<c_id, c_amount>>, 2)) @@
                (n_notes :> Content("text", comma, <<c_id>>, 0)))) @@
    (n_bzip :> ((m_a :> Corrupt) @@
                (n_tsv :> Content("text", tab, <<c_id, c_amount>>, 1)) @@
                (m_hidden :> Content("text", comma, <<c_id>>, 1)))) @@
    (n_ezip :> [n \in {} |-> Absent])

ExtractNames == UNION {DOMAIN Members[z] : z \in DOMAIN Members}

\* the source directories the runs are tried on
SourceDirs == {D \in SUBSET TopNames : Cardinality(D) <= MaxDirSize}

\* os.listdir of a folder: the names present in it
listdir(folder, d, ex) ==
    IF folder = get_data_folder THEN d
    ELSE IF folder = get_extracted_data_folder
    THEN {n \in ExtractNames : ex[n] # Absent}
    ELSE {}

\* what the file at path holds (Absent when there is none)
content_at(path, d, ex) ==
    LET n == basename(path)
    IN  IF dirname(path) = get_data_folder /\ n \in d THEN DataContent[n]
        ELSE IF dirname(path) = get_extracted_data_folder /\ n \in ExtractNames
        THEN ex[n]
        ELSE Absent

\* os.path.exists
exists(path, d, ex) == content_at(path, d, ex) # Absent

(***************************************************************************)
(* pandas readers: what each returns on a content                          *)
(***************************************************************************)
Frame(columns, row_count) ==
    [ok |-> TRUE, columns |-> columns, row_count |-> row_count]

ReaderError == [ok |-> FALSE, columns |-> <<>>, row_count |-> 0]

\* a header line as the text of one field: the names joined by sep
RECURSIVE JoinNames(_, _)
JoinNames(columns, sep) ==
    IF Len(columns) <= 1 THEN (IF columns = <<>> THEN <<>> ELSE columns[1])
    ELSE columns[1] \o sep \o JoinNames(Tail(columns), sep)

\* pd.read_csv(path, delimiter=delimiter): text split on the delimiter it
\* was written with gives its table; split on another delimiter every line
\* is one field.  A JSON document is one line of text: read_csv takes it
\* for a header and finds no rows.  Binary and corrupt contents do not
\* decode.
pd_read_csv(c, delimiter) ==
    IF c.kind = "json"
    THEN Frame(<<<<"[{">> \o JoinNames(c.columns, delimiter)>>, 0)
    ELSE IF c.kind # "text" THEN ReaderError
    ELSE IF c.sep = delimiter THEN Frame(c.columns, c.row_count)
    ELSE Frame(<<JoinNames(c.columns, c.sep)>>, c.row_count)

pd_read_excel(c) ==
    IF c.kind = "xlsx" THEN Frame(c.columns, c.row_count) ELSE ReaderError

pd_read_parquet(c) ==
    IF c.kind = "parquet" THEN Frame(c.columns, c.row_count) ELSE ReaderError

pd_read_json(c) ==
    IF c.kind = "json" THEN Frame(c.columns, c.row_count) ELSE ReaderError


(***************************************************************************)
(* Format reader (DataIngestor.read_file)                                  *)
(***************************************************************************)
Instructions(function, arguments) ==
    [function |-> function, arguments |-> arguments]

NoInstructions == Instructions("", <<>>)

\* what a pandas reader raises on a content it cannot read
reader_failure(c) == IF c = Absent THEN "NoSuchFile" ELSE "ParseError"

ReadOutcome(c, df, import_instructions) ==
    IF df.ok
    THEN [raised |-> "", df |-> df, import_instructions |-> import_instructions]
    ELSE [raised |-> reader_failure(c), df |-> ReaderError,
          import_instructions |-> NoInstructions]

\* read_file with the delimiter left out of the instructions of a .txt read
\* (sensitivity of C5)
read_file_no_delimiter(file_path, file_extension, d, ex) ==
    LET c == content_at(file_path, d, ex)
    IN  IF file_extension = ext_csv
        THEN ReadOutcome(c, pd_read_csv(c, comma),
                 Instructions("pd.read_csv", "filepath_or_buffer" :> file_path))
        ELSE IF file_extension = ext_xlsx
        THEN ReadOutcome(c, pd_read_excel(c),
                 Instructions("pd.read_excel", "io" :> file_path))
        ELSE IF file_extension = ext_parquet
        THEN ReadOutcome(c, pd_read_parquet(c),
                 Instructions("pd.read_parquet", "path" :> file_path))
        ELSE IF file_extension = ext_json
        THEN ReadOutcome(c, pd_read_json(c),
                 Instructions("pd.read_json", "path_or_buf" :> file_path))
        ELSE IF file_extension = ext_txt
        THEN ReadOutcome(c, pd_read_csv(c, tab),
                 Instructions("pd.read_csv", "filepath_or_buffer" :> file_path))
        ELSE [raised |-> "UnsupportedFormat", df |-> ReaderError,
              import_instructions |-> NoInstructions]

\* read_file choosing the reader by what the file holds when it holds JSON
\* (sensitivity of C14)
read_file_sniffing(file_path, file_extension, d, ex) ==
    LET c        == content_at(file_path, d, ex)
        declared == IF c.kind = "json" THEN ext_json ELSE file_extension
    IN  IF declared = ext_csv
        THEN ReadOutcome(c, pd_read_csv(c, comma),
                 Instructions("pd.read_csv", "filepath_or_buffer" :> file_path))
        ELSE IF declared = ext_xlsx
        THEN ReadOutcome(c, pd_read_excel(c),
                 Instructions("pd.read_excel", "io" :> file_path))
        ELSE IF declared = ext_parquet
        THEN ReadOutcome(c, pd_read_parquet(c),
                 Instructions("pd.read_parquet", "path" :> file_path))
        ELSE IF declared = ext_json
        THEN ReadOutcome(c, pd_read_json(c),
                 Instructions("pd.read_json", "path_or_buf" :> file_path))
        ELSE IF declared = ext_txt
        THEN ReadOutcome(c, pd_read_csv(c, tab),
                 Instructions("pd.read_csv",
                     ("filepath_or_buffer" :> file_path) @@ ("delimiter" :> tab)))
        ELSE [raised |-> "UnsupportedFormat", df |-> ReaderError,
              import_instructions |-> NoInstructions]

read_file(file_path, file_extension, d, ex) ==
    LET c == content_at(file_path, d, ex)
    IN  IF file_extension = ext_csv
        THEN ReadOutcome(c, pd_read_csv(c, comma),
                 Instructions("pd.read_csv", "filepath_or_buffer" :> file_path))
        ELSE IF file_extension = ext_xlsx
        THEN ReadOutcome(c, pd_read_excel(c),
                 Instructions("pd.read_excel", "io" :> file_path))
        ELSE IF file_extension = ext_parquet
        THEN ReadOutcome(c, pd_read_parquet(c),
                 Instructions("pd.read_parquet", "path" :> file_path))
        ELSE IF file_extension = ext_json
        THEN ReadOutcome(c, pd_read_json(c),
                 Instructions("pd.read_json", "path_or_buf" :> file_path))
        ELSE IF file_extension = ext_txt
        THEN ReadOutcome(c, pd_read_csv(c, tab),
                 Instructions("pd.read_csv",
                     ("filepath_or_buffer" :> file_path) @@ ("delimiter" :> tab)))
        ELSE [raised |-> "UnsupportedFormat", df |-> ReaderError,
              import_instructions |-> NoInstructions]

(***************************************************************************)
(* Ingestion results                                                       *)
(*                                                                         *)
(* exc is the Python exception type that left the call ("" when it         *)
(* returned), kind the raise statement it came from, cause what the        *)
(* reader raised underneath; value is the metadata returned (one record    *)
(* for a per-format ingestor, a list for the ZIP ingestor); listing is the *)
(* filtered listing the ZIP loop ran over, processed the entries its body  *)
(* ran on, warnings the warnings issued.                                   *)
(***************************************************************************)
FileMetadata(file_name, file_type, df, import_instructions) ==
    [file_name |-> file_name, file_type |-> file_type, columns |-> df.columns,
     row_count |-> df.row_count, import_instructions |-> import_instructions]

Raise(exc, kind, cause) ==
    [exc |-> exc, kind |-> kind, cause |-> cause, value |-> <<>>,
     listing |-> <<>>, processed |-> <<>>, warnings |-> <<>>, message |-> <<>>]

Return(value) ==
    [exc |-> "", kind |-> "", cause |-> "", value |-> value,
     listing |-> <<>>, processed |-> <<>>, warnings |-> <<>>, message |-> <<>>]

\* str(e) of what read_file raised, as the parts it is made of: the operating
\* system names the path it did not find, a pandas parser describes the
\* content it stopped at and no file
str_e(raised, file_path) ==
    IF raised = "NoSuchFile"
    THEN <<<<"[Errno 2] No such file or directory: ">>, file_path>>
    ELSE IF raised = "ParseError"
    THEN <<<<"Error tokenizing data">>>>
    ELSE <<<<"Unsupported file type">>>>

\* try: read_file with the given extension, build the metadata with the
\* given file_type; except Exception as e: raise ValueError(f'Failed to
\* ingest ... file: {e}'), the message being a fixed text (which differs
\* between the ingestors in the format it names only) followed by str(e)
read_and_describe(file_path, read_as, file_type, d, ex) ==
    LET r == read_file(file_path, read_as, d, ex)
    IN  IF r.raised # ""
        THEN [Raise("ValueError", "IngestionError", r.raised) EXCEPT
                 !.message = <<<<"Failed to ingest file: ">>>>
                             \o str_e(r.raised, file_path)]
        ELSE Return(<<FileMetadata(basename(file_path), file_type, r.df,
                                   r.import_instructions)>>)

CsvDataIngestor_ingest(file_path, d, ex) ==
    IF ~EndsWith(file_path, ext_csv)
    THEN Raise("ValueError", "InvalidExtension", "")
    ELSE IF ~exists(file_path, d, ex)
    THEN Raise("FileNotFoundError", "FileNotFound", "")
    ELSE read_and_describe(file_path, ext_csv, ext_csv, d, ex)

ExcelDataIngestor_ingest(file_path, d, ex) ==
    IF ~(EndsWith(file_path, ext_xlsx) \/ EndsWith(file_path, ext_xls))
    THEN Raise("ValueError", "InvalidExtension", "")
    ELSE read_and_describe(file_path, ext_xlsx, ext_xlsx, d, ex)

ParquetDataIngestor_ingest(file_path, d, ex) ==
    IF ~EndsWith(file_path, ext_parquet)
    THEN Raise("ValueError", "InvalidExtension", "")
    ELSE read_and_describe(file_path, ext_parquet, ext_parquet, d, ex)

JsonDataIngestor_ingest(file_path, d, ex) ==
    IF ~EndsWith(file_path, ext_json)
    THEN Raise("ValueError", "InvalidExtension", "")
    ELSE read_and_describe(file_path, ext_json, ext_parquet, d, ex)

TxtDataIngestor_ingest(file_path, d, ex) ==
    IF ~EndsWith(file_path, ext_txt)
    THEN Raise("ValueError", "InvalidExtension", "")
    ELSE read_and_describe(file_path, ext_json, ext_json, d, ex)


(***************************************************************************)
(* ZIP ingestor                                                            *)
(***************************************************************************)
\* i.startswith('.') or i.startswith('_')
\* the filter without its test on the underscore (sensitivity of C15)
hidden_dot_only(i) == StartsWith(i, <<".">>)

hidden(i) == StartsWith(i, <<".">>) \/ StartsWith(i, <<"_">>)

supported_formats == {ext_csv, ext_xlsx, ext_parquet, ext_json, ext_txt}

Warning(kind, file_name) == [kind |-> kind, file_name |-> file_name]

\* zip_ref.extractall(extracted_data_folder): every member is written into
\* the folder, over a file of the same name; what else the folder holds stays
extractall(file_path, ex) ==
    LET members == Members[basename(file_path)]
    IN  [n \in ExtractNames |->
            IF n \in DOMAIN members THEN members[n] ELSE ex[n]]

\* the checks, and the opening of the archive, that precede the extraction
zip_open(file_path, d, ex) ==
    IF ~EndsWith(file_path, ext_zip)
    THEN Raise("ValueError", "InvalidExtension", "")
    ELSE IF ~exists(file_path, d, ex)
    THEN Raise("FileNotFoundError", "FileNotFound", "")
    ELSE IF content_at(file_path, d, ex).kind # "zip"
    THEN Raise("BadZipFile", "BadZipFile", "")
    ELSE Return(<<>>)

\* the loop body without the try/except around the read: the failure of a
\* member leaves the call (sensitivity of C9)
zip_member_uncaught(file_name, d, ex, acc) ==
    LET extracted_file_path == join(get_extracted_data_folder, file_name)
        file_extension      == splitext(file_name)
        seen                == [acc EXCEPT !.processed = Append(@, file_name)]
    IN  IF acc.exc # "" THEN acc
        ELSE IF file_extension \notin supported_formats
        THEN [seen EXCEPT !.warnings = Append(@, Warning("unsupported", file_name))]
        ELSE LET r == read_file(extracted_file_path, file_extension, d, ex)
             IN  IF r.raised # ""
                 THEN [seen EXCEPT !.exc = "ReaderError", !.kind = r.raised,
                                   !.value = <<>>]
                 ELSE [seen EXCEPT !.value =
                          Append(@, FileMetadata(file_name, file_extension, r.df,
                                                 r.import_instructions))]

\* one turn of the loop over the filtered listing
zip_member(file_name, d, ex, acc) ==
    LET extracted_file_path == join(get_extracted_data_folder, file_name)
        file_extension      == splitext(file_name)
        seen                == [acc EXCEPT !.processed = Append(@, file_name)]
    IN  IF file_extension \notin supported_formats
        THEN [seen EXCEPT !.warnings = Append(@, Warning("unsupported", file_name))]
        ELSE LET r == read_file(extracted_file_path, file_extension, d, ex)
             IN  IF r.raised # ""
                 THEN [seen EXCEPT !.warnings = Append(@, Warning("failed", file_name))]
                 ELSE [seen EXCEPT !.value =
                          Append(@, FileMetadata(file_name, file_extension, r.df,
                                                 r.import_instructions))]

RECURSIVE zip_loop(_, _, _, _)
zip_loop(files, d, ex, acc) ==
    IF files = <<>> THEN acc
    ELSE zip_loop(Tail(files), d, ex, zip_member(Head(files), d, ex, acc))

\* the extraction folder after the call: the members are extracted once the
\* archive is open
zip_extracted(file_path, d, ex) ==
    IF zip_open(file_path, d, ex).exc # "" THEN ex ELSE extractall(file_path, ex)

\* extracted_files is what os.listdir returned for the extraction folder
ZipDataIngestor_ingest(file_path, d, ex, extracted_files) ==
    LET filtered_extracted_files ==
            SelectSeq(extracted_files, LAMBDA i : ~hidden(i))
    IN  IF zip_open(file_path, d, ex).exc # "" THEN zip_open(file_path, d, ex)
        ELSE IF filtered_extracted_files = <<>>
        THEN Raise("FileNotFoundError", "EmptyArchive", "")
        ELSE zip_loop(filtered_extracted_files, d, extractall(file_path, ex),
                      [Return(<<>>) EXCEPT !.listing = filtered_extracted_files])

\* the listings os.listdir can return at that point of the call
Listings(file_path, d, ex) ==
    IF zip_open(file_path, d, ex).exc # "" THEN {<<>>}
    ELSE Orders(listdir(get_extracted_data_folder, d, extractall(file_path, ex)))

(***************************************************************************)
(* Factory                                                                 *)
(***************************************************************************)
\* the table with the .txt entry bound to the JSON ingestor (sensitivity
\* of C3)
ingestors_swapped ==
    (ext_zip     :> "ZipDataIngestor") @@
    (ext_csv     :> "CsvDataIngestor") @@
    (ext_xlsx    :> "ExcelDataIngestor") @@
    (ext_parquet :> "ParquetDataIngestor") @@
    (ext_json    :> "JsonDataIngestor") @@
    (ext_txt     :> "JsonDataIngestor")

ingestors ==
    (ext_zip     :> "ZipDataIngestor") @@
    (ext_csv     :> "CsvDataIngestor") @@
    (ext_xlsx    :> "ExcelDataIngestor") @@
    (ext_parquet :> "ParquetDataIngestor") @@
    (ext_json    :> "JsonDataIngestor") @@
    (ext_txt     :> "TxtDataIngestor")

\* a factory that takes .xls too, as the Excel ingestor does (sensitivity
\* of C2)
get_ingestor_xls(file_extension) ==
    IF file_extension = ext_xls
    THEN [exc |-> "", kind |-> "", variant |-> "ExcelDataIngestor"]
    ELSE IF file_extension \in DOMAIN ingestors
    THEN [exc |-> "", kind |-> "", variant |-> ingestors[file_extension]]
    ELSE [exc |-> "ValueError", kind |-> "UnsupportedFormat", variant |-> ""]

\* DataFactory.get_ingestor: the variant instantiated, or the ValueError
get_ingestor(file_extension) ==
    IF file_extension \in DOMAIN ingestors
    THEN [exc |-> "", kind |-> "", variant |-> ingestors[file_extension]]
    ELSE [exc |-> "ValueError", kind |-> "UnsupportedFormat", variant |-> ""]

\* ingestor.ingest(file_path) on an instance of the variant
ingest(variant, file_path, d, ex, extracted_files) ==
    CASE variant = "ZipDataIngestor" ->
            ZipDataIngestor_ingest(file_path, d, ex, extracted_files)
      [] variant = "CsvDataIngestor"     -> CsvDataIngestor_ingest(file_path, d, ex)
      [] variant = "ExcelDataIngestor"   -> ExcelDataIngestor_ingest(file_path, d, ex)
      [] variant = "ParquetDataIngestor" -> ParquetDataIngestor_ingest(file_path, d, ex)
      [] variant = "JsonDataIngestor"    -> JsonDataIngestor_ingest(file_path, d, ex)
      [] variant = "TxtDataIngestor"     -> TxtDataIngestor_ingest(file_path, d, ex)

\* the extraction folder after ingestor.ingest(file_path)
ingest_extracted(variant, file_path, d, ex) ==
    IF variant = "ZipDataIngestor" THEN zip_extracted(file_path, d, ex) ELSE ex

\* the listings the call can see (only the ZIP ingestor lists a folder)
IngestListings(variant, file_path, d, ex) ==
    IF variant = "ZipDataIngestor" THEN Listings(file_path, d, ex) ELSE {<<>>}

(***************************************************************************)
(* Reload (DataLoader.load_data)                                           *)
(***************************************************************************)
\* eval(import_function)(**import_args)
pd_call(import_function, import_args, d, ex) ==
    CASE import_function = "pd.read_csv" ->
            pd_read_csv(content_at(import_args["filepath_or_buffer"], d, ex),
                        IF "delimiter" \in DOMAIN import_args
                        THEN import_args["delimiter"] ELSE comma)
      [] import_function = "pd.read_excel" ->
            pd_read_excel(content_at(import_args["io"], d, ex))
      [] import_function = "pd.read_parquet" ->
            pd_read_parquet(content_at(import_args["path"], d, ex))
      [] import_function = "pd.read_json" ->
            pd_read_json(content_at(import_args["path_or_buf"], d, ex))
      [] OTHER -> ReaderError

\* the table one metadata entry reloads to
load_entry(entry, d, ex) ==
    pd_call(entry.import_instructions.function,
            entry.import_instructions.arguments, d, ex)

\* the loop of load_data: the tables loaded, or the exception of the first
\* entry that does not load
RECURSIVE load_data(_, _, _, _)
load_data(metadata, d, ex, dfs) ==
    IF metadata = <<>> THEN [exc |-> "", dfs |-> dfs]
    ELSE LET df == load_entry(Head(metadata), d, ex)
         IN  IF ~df.ok THEN [exc |-> "Exception", dfs |-> <<>>]
             ELSE load_data(Tail(metadata), d, ex, Append(dfs, df))


(***************************************************************************)
(* Metadata persistence (DataIngestor.save_metadata)                       *)
(*                                                                         *)
(* The artifact is metadata.json: absent, written (holding a batch), or    *)
(* torn (opened for writing, hence truncated, and not written to the end). *)
(* io is what the file system does during the call.                        *)
(***************************************************************************)
Artifact(state, batch) == [state |-> state, batch |-> batch]

NoArtifact == Artifact("absent", <<>>)

IoOutcomes == {"ok", "makedirs_fails", "open_fails", "dump_fails"}

save_metadata(metadata, art, io) ==
    CASE io = "makedirs_fails" ->
            [exc |-> "OSError", warned |-> FALSE, artifact |-> art]
      [] io = "open_fails" ->
            [exc |-> "", warned |-> TRUE, artifact |-> art]
      [] io = "dump_fails" ->
            [exc |-> "", warned |-> TRUE, artifact |-> Artifact("torn", <<>>)]
      [] OTHER ->
            [exc |-> "", warned |-> FALSE, artifact |-> Artifact("written", metadata)]

(***************************************************************************)
(* State                                                                   *)
(*                                                                         *)
(* data      the entry names present in the source folder                  *)
(* extracted the extraction folder: what each entry name holds             *)
(* artifact  metadata.json                                                 *)
(* last      the most recent call and how it ended; a client looks at the  *)
(*           result of one call, drops it, and makes the next call         *)
(* main      the entry point: where it stands and its local variables      *)
(* runLog    the entries of the batches written by the latest runs of the  *)
(*           entry point that completed one after the other (at most two)  *)
(***************************************************************************)
EmptyFolder == [n \in ExtractNames |-> Absent]

\* what the extraction folder can hold when the program starts: the folder
\* is never cleaned, so it is empty or holds what an earlier ingestion of an
\* archive left
Leftovers ==
    {EmptyFolder} \cup {extractall(z, EmptyFolder) : z \in DOMAIN Members}

\* what metadata.json can hold when the program starts: nothing, or the
\* batch an earlier run wrote when the source folder held s.csv alone
Previous ==
    {NoArtifact,
     Artifact("written",
              CsvDataIngestor_ingest(join(get_data_folder, n_sales), {n_sales},
                                     EmptyFolder).value)}

NotLoaded == [exc |-> "", dfs |-> <<>>]

Last(op, ext, variant, path, res) ==
    [op |-> op, ext |-> ext, variant |-> variant, path |-> path, res |-> res,
     loaded |-> NotLoaded]

\* no call made yet, or the result of the last one dropped
NoCall == Last("none", <<>>, "", <<>>, Return(<<>>))

Idle ==
    [pc |-> "idle", filtered_file_path |-> <<>>, file_extensions |-> <<>>,
     data_ingestors |-> <<>>, i |-> 1, metadata_list |-> <<>>]

Init ==
    /\ data \in SourceDirs
    /\ extracted \in Leftovers
    /\ artifact \in Previous
    /\ last = NoCall
    /\ main = Idle
    /\ runLog = <<>>

(***************************************************************************)
(* Calls a client makes on the library                                     *)
(***************************************************************************)
\* DataFactory.get_ingestor(file_extension)
GetIngestor(file_extension) ==
    LET g == get_ingestor(file_extension)
    IN  /\ main.pc = "idle"
        /\ last.op = "none"
        /\ last' = Last("get_ingestor", file_extension, g.variant, <<>>,
                        IF g.exc = "" THEN Return(<<>>)
                        ELSE Raise(g.exc, g.kind, ""))
        /\ UNCHANGED <<data, extracted, artifact, main, runLog>>

\* DataFactory.get_ingestor(file_extension).ingest(file_path), for a path in
\* the source folder
Ingest(file_extension, name) ==
    LET g         == get_ingestor(file_extension)
        file_path == join(get_data_folder, name)
    IN  /\ main.pc = "idle"
        /\ last.op = "none"
        /\ g.exc = ""
        /\ \E extracted_files \in IngestListings(g.variant, file_path, data, extracted) :
              \E res \in {ingest(g.variant, file_path, data, extracted, extracted_files)} :
                  /\ last' = Last("ingest", file_extension, g.variant, file_path, res)
                  /\ extracted' = ingest_extracted(g.variant, file_path, data, extracted)
        /\ runLog' = <<>>
        /\ UNCHANGED <<data, artifact, main>>

\* the paths read_file is called with: the files of the source folder, one
\* more path in it (s.csv, there or not), and the entries the extraction
\* folder can hold
ReadPaths ==
    {join(get_data_folder, name) : name \in data \cup {n_sales}}
    \cup {join(get_extracted_data_folder, name) : name \in ExtractNames}

\* DataIngestor.read_file(file_path, file_extension)
ReadFile(file_extension, file_path) ==
    /\ main.pc = "idle"
    /\ last.op = "none"
    /\ last' = Last("read_file", file_extension, "", file_path,
                    read_file(file_path, file_extension, data, extracted))
    /\ UNCHANGED <<data, extracted, artifact, main, runLog>>

\* DataLoader.load_data() on the metadata the ingestion returned
Reload ==
    /\ main.pc = "idle"
    /\ last.op = "ingest"
    /\ last.res.exc = ""
    /\ LET loaded == load_data(last.res.value, data, extracted, <<>>)
       IN  last' = [last EXCEPT !.op = "reload", !.loaded = loaded]
    /\ UNCHANGED <<data, extracted, artifact, main, runLog>>

\* the client is done with the result of its call
Discard ==
    /\ main.pc = "idle"
    /\ last.op \in {"get_ingestor", "ingest", "reload", "read_file"}
    /\ last' = NoCall
    /\ UNCHANGED <<data, extracted, artifact, main, runLog>>

(***************************************************************************)
(* Entry point (__main__)                                                  *)
(***************************************************************************)
Map(s, Op(_)) == [k \in 1..Len(s) |-> Op(s[k])]

\* listing and filtering of the source folder, the extensions, the factory
MainStart ==
    /\ main.pc = "idle"
    /\ \E listed \in Orders(listdir(get_data_folder, data, extracted)) :
       \E filtered_file_path \in
              {Map(SelectSeq(listed, LAMBDA i : ~hidden(i)),
                   LAMBDA i : join(get_data_folder, i))} :
       \E file_extensions \in {Map(filtered_file_path, splitext)} :
       \E made \in {Map(file_extensions, get_ingestor)} :
          LET failed == {k \in 1..Len(made) : made[k].exc # ""}
          IN  IF failed # {}
              THEN LET k == CHOOSE k \in failed : \A j \in failed : k <= j
                   IN  /\ last' = Last("main", file_extensions[k], "", filtered_file_path[k],
                                       Raise(made[k].exc, made[k].kind, ""))
                       /\ main' = Idle
                       /\ runLog' = <<>>
              ELSE /\ main' = [pc |-> "ingest",
                               filtered_file_path |-> filtered_file_path,
                               file_extensions |-> file_extensions,
                               data_ingestors |-> Map(made, LAMBDA g : g.variant),
                               i |-> 1, metadata_list |-> <<>>]
                   /\ last' = Last("main", <<>>, "", <<>>, Return(<<>>))
                   /\ UNCHANGED runLog
    /\ UNCHANGED <<data, extracted, artifact>>

\* the loop saving what it has collected when an ingestion fails
\* (sensitivity of C17)
MainIngest_saving ==
    /\ main.pc = "ingest"
    /\ main.i <= Len(main.filtered_file_path)
    /\ LET ingestor       == main.data_ingestors[main.i]
           file_path      == main.filtered_file_path[main.i]
           file_extension == main.file_extensions[main.i]
       IN  \E extracted_files \in IngestListings(ingestor, file_path, data, extracted) :
              \E metadata \in {ingest(ingestor, file_path, data, extracted, extracted_files)} :
                  /\ extracted' = ingest_extracted(ingestor, file_path, data, extracted)
                  /\ IF metadata.exc # ""
                     THEN /\ main' = Idle
                          /\ last' = Last("main", file_extension, ingestor, file_path,
                                          metadata)
                          /\ runLog' = <<>>
                          /\ artifact' = Artifact("written", main.metadata_list)
                     ELSE /\ main' = [main EXCEPT
                                 !.i = @ + 1,
                                 !.metadata_list =
                                     IF file_extension # ext_zip
                                     THEN Append(@, metadata.value[1])
                                     ELSE @ \o metadata.value]
                          /\ last' = Last("ingest", file_extension, ingestor, file_path,
                                          metadata)
                          /\ UNCHANGED <<runLog, artifact>>
    /\ UNCHANGED data

\* the loop with each ingestion in a try/except that skips the file
\* (sensitivity of C13)
MainIngest_skipping ==
    /\ main.pc = "ingest"
    /\ main.i <= Len(main.filtered_file_path)
    /\ LET ingestor       == main.data_ingestors[main.i]
           file_path      == main.filtered_file_path[main.i]
           file_extension == main.file_extensions[main.i]
       IN  \E extracted_files \in IngestListings(ingestor, file_path, data, extracted) :
              \E metadata \in {ingest(ingestor, file_path, data, extracted, extracted_files)} :
                  /\ extracted' = ingest_extracted(ingestor, file_path, data, extracted)
                  /\ main' = [main EXCEPT
                                 !.i = @ + 1,
                                 !.metadata_list =
                                     IF metadata.exc # "" THEN @
                                     ELSE IF file_extension # ext_zip
                                     THEN Append(@, metadata.value[1])
                                     ELSE @ \o metadata.value]
                  /\ last' = Last("ingest", file_extension, ingestor, file_path,
                                  metadata)
                  /\ UNCHANGED runLog
    /\ UNCHANGED <<data, artifact>>

\* one turn of the loop: ingest the next file and collect its metadata; an
\* exception leaves the loop and ends the run
MainIngest ==
    /\ main.pc = "ingest"
    /\ main.i <= Len(main.filtered_file_path)
    /\ LET ingestor       == main.data_ingestors[main.i]
           file_path      == main.filtered_file_path[main.i]
           file_extension == main.file_extensions[main.i]
       IN  \E extracted_files \in IngestListings(ingestor, file_path, data, extracted) :
              \E metadata \in {ingest(ingestor, file_path, data, extracted, extracted_files)} :
                  /\ extracted' = ingest_extracted(ingestor, file_path, data, extracted)
                  /\ IF metadata.exc # ""
                     THEN /\ main' = Idle
                          /\ last' = Last("main", file_extension, ingestor, file_path,
                                          metadata)
                          /\ runLog' = <<>>
                     ELSE /\ main' = [main EXCEPT
                                 !.i = @ + 1,
                                 !.metadata_list =
                                     IF file_extension # ext_zip
                                     THEN Append(@, metadata.value[1])
                                     ELSE @ \o metadata.value]
                          /\ last' = Last("ingest", file_extension, ingestor, file_path,
                                          metadata)
                          /\ UNCHANGED runLog
    /\ UNCHANGED <<data, artifact>>

\* after the loop: save the metadata, print the completion message
MainSave ==
    /\ main.pc = "ingest"
    /\ main.i > Len(main.filtered_file_path)
    /\ \E io \in IoOutcomes :
          \E saved \in {save_metadata(main.metadata_list, artifact, io)} :
              /\ artifact' = saved.artifact
              /\ last' = Last("main", <<>>, "", <<>>,
                              IF saved.exc # ""
                              THEN Raise(saved.exc, "SaveError", "")
                              ELSE [Return(main.metadata_list) EXCEPT
                                       !.warnings = IF saved.warned
                                                    THEN <<Warning("save", <<>>)>>
                                                    ELSE <<>>,
                                       !.kind = "done"])
              /\ runLog' = IF io = "ok"
                           THEN (IF Len(runLog) = 2 THEN Tail(runLog) ELSE runLog)
                                \o <<Range(main.metadata_list)>>
                           ELSE <<>>
    /\ main' = Idle
    /\ UNCHANGED <<data, extracted>>

\* what a client of the library does
CallNext ==
    \/ \E file_extension \in Extensions : GetIngestor(file_extension)
    \/ \E file_extension \in Extensions, name \in TopNames :
          Ingest(file_extension, name)
    \/ Reload
    \/ Discard

\* the format reader called on its own
ReadNext ==
    \/ \E file_extension \in Extensions, file_path \in ReadPaths :
          ReadFile(file_extension, file_path)
    \/ Discard

\* what running the script does
RunNext ==
    \/ MainStart
    \/ MainIngest
    \/ MainSave

Next ==
    \/ \E file_extension \in Extensions : GetIngestor(file_extension)
    \/ \E file_extension \in Extensions, name \in TopNames :
          Ingest(file_extension, name)
    \/ Reload
    \/ Discard
    \/ \E file_extension \in Extensions, file_path \in ReadPaths :
          ReadFile(file_extension, file_path)
    \/ MainStart
    \/ MainIngest
    \/ MainSave

Spec == Init /\ [][Next]_vars

\* the library under the calls of a client
CallSpec == Init /\ [][CallNext]_vars

\* the entry point, run again and again on the source folder
RunSpec == Init /\ [][RunNext]_vars

\* the format reader under the calls of a client
ReadSpec == Init /\ [][ReadNext]_vars


(***************************************************************************)
(* Properties                                                              *)
(***************************************************************************)
\* the six extensions the factory recognizes
Recognized == {ext_zip, ext_csv, ext_xlsx, ext_parquet, ext_json, ext_txt}

\* the variant that corresponds to each recognized extension
ExpectedVariant ==
    (ext_zip     :> "ZipDataIngestor") @@
    (ext_csv     :> "CsvDataIngestor") @@
    (ext_xlsx    :> "ExcelDataIngestor") @@
    (ext_parquet :> "ParquetDataIngestor") @@
    (ext_json    :> "JsonDataIngestor") @@
    (ext_txt     :> "TxtDataIngestor")

\* the extension each variant expects of the path it is given
ExpectedExtension ==
    ("ZipDataIngestor"     :> ext_zip) @@
    ("CsvDataIngestor"     :> ext_csv) @@
    ("ExcelDataIngestor"   :> ext_xlsx) @@
    ("ParquetDataIngestor" :> ext_parquet) @@
    ("JsonDataIngestor"    :> ext_json) @@
    ("TxtDataIngestor"     :> ext_txt)

\* the extension whose format a content is a well-formed file of
FormatOf(c) ==
    CASE c.kind = "text" /\ c.sep = comma -> ext_csv
      [] c.kind = "text" /\ c.sep = tab   -> ext_txt
      [] c.kind = "xlsx"                  -> ext_xlsx
      [] c.kind = "parquet"               -> ext_parquet
      [] c.kind = "json"                  -> ext_json
      [] OTHER                            -> ext_none

\* the file the last call was given
GivenFile == content_at(last.path, data, extracted)

FileNames(value) == {value[k].file_name : k \in 1..Len(value)}

\* the last call is an ingestion by the ZIP ingestor of an existing archive
ZipIngested ==
    /\ last.op = "ingest"
    /\ last.variant = "ZipDataIngestor"
    /\ EndsWith(last.path, ext_zip)
    /\ exists(last.path, data, extracted)

\* the members of the archive the last call was given that are eligible
EligibleMembers ==
    {n \in DOMAIN Members[basename(last.path)] : ~hidden(n)}

\* the eligible entries of the extraction folder
EligibleEntries ==
    {n \in listdir(get_extracted_data_folder, data, extracted) : ~hidden(n)}

\* C1: for every supported extension E, the ingestor the factory returns for
\* E, applied to an existing well-formed file of type E, succeeds and returns
\* the columns and the row count of that file.
C1_FactoryIngestsWellFormed ==
    (/\ last.op = "ingest"
     /\ last.ext \in supported_formats
     /\ splitext(last.path) = last.ext
     /\ FormatOf(GivenFile) = last.ext)
    => /\ last.res.exc = ""
       /\ Len(last.res.value) = 1
       /\ last.res.value[1].columns = GivenFile.columns
       /\ last.res.value[1].row_count = GivenFile.row_count

\* C2: get_ingestor fails with UnsupportedFormat, a ValueError, for every
\* extension outside the six recognized ones (case-sensitively), and returns
\* no ingestor then.
C2_UnrecognizedRejected ==
    (last.op = "get_ingestor" /\ last.ext \notin Recognized)
    => /\ last.res.exc = "ValueError"
       /\ last.res.kind = "UnsupportedFormat"
       /\ last.variant = ""

C2_Witness ==
    /\ last.op = "get_ingestor"
    /\ last.ext = ext_CSV
    /\ last.res.exc = "ValueError"

\* C3: get_ingestor is a pure, stateless mapping: in every call with a
\* recognized extension it returns the variant that corresponds to the
\* extension, and no call changes the source folder, the extraction folder,
\* the artifact or the entry point.
C3_FactoryPureMapping ==
    [][(last'.op = "get_ingestor" /\ last.op = "none")
       => /\ last'.ext \in Recognized
             => /\ last'.res.exc = ""
                /\ last'.variant = ExpectedVariant[last'.ext]
          /\ UNCHANGED <<data, extracted, artifact, main, runLog>>]_vars

C3_Witness ==
    /\ last.op = "get_ingestor"
    /\ last.ext = ext_txt
    /\ last.variant = "TxtDataIngestor"
    /\ \E n \in ExtractNames : extracted[n] # Absent

\* C4: every FileMetadata an ingestor produces has a file_type that is the
\* extension of its file_name.
C4_FileTypeIsExtension ==
    last.op = "ingest"
    => \A k \in 1..Len(last.res.value) :
          last.res.value[k].file_type = splitext(last.res.value[k].file_name)

\* C5: executing the reload recipe of every FileMetadata an ingestion
\* recorded, with the files unchanged, gives a table with the recorded
\* column list and the recorded row_count.
C5_ReloadReproduces ==
    last.op = "reload"
    => /\ last.loaded.exc = ""
       /\ Len(last.loaded.dfs) = Len(last.res.value)
       /\ \A k \in 1..Len(last.res.value) :
             /\ last.loaded.dfs[k].columns = last.res.value[k].columns
             /\ last.loaded.dfs[k].row_count = last.res.value[k].row_count

C5_Witness ==
    /\ last.op = "reload"
    /\ last.variant = "ZipDataIngestor"
    /\ \E k \in 1..Len(last.res.value) :
          /\ last.res.value[k].file_type = ext_txt
          /\ Len(last.loaded.dfs[k].columns) = 2
          /\ last.loaded.dfs[k].row_count = 1

\* C6: two runs of the entry point, one after the other, on an unchanged
\* source directory write the same set of entries.
C6_RerunSameEntries ==
    Len(runLog) = 2 => runLog[1] = runLog[2]

\* C7: the ZIP ingestor, given an existing archive with no eligible member,
\* fails with EmptyArchive, whatever was ingested before.
C7_EmptyArchiveRejected ==
    (ZipIngested /\ EligibleMembers = {})
    => /\ last.res.exc # ""
       /\ last.res.kind = "EmptyArchive"

\* C8: the ZIP ingestor returns exactly one FileMetadata for each member of
\* the archive it was given that is eligible, has a supported extension and
\* is a well-formed file of that extension, and nothing else.
C8_OnePerMemberOfArchive ==
    (ZipIngested /\ last.res.exc = "")
    => LET members == Members[basename(last.path)]
           good    == {n \in EligibleMembers : FormatOf(members[n]) = splitext(n)}
       IN  /\ Len(last.res.value) = Cardinality(good)
           /\ FileNames(last.res.value) = good

\* C9: in the loop of the ZIP ingestor an entry with an unsupported
\* extension, or one the reader fails on, never aborts the ingestion: the
\* call returns, every listed entry was processed, and each such entry has
\* its warning and no FileMetadata.
C9_BadMemberNeverAborts ==
    (ZipIngested /\ EligibleEntries # {})
    => /\ last.res.exc = ""
       /\ Len(last.res.processed) = Cardinality(EligibleEntries)
       /\ Range(last.res.processed) = EligibleEntries
       /\ \A n \in EligibleEntries :
             IF splitext(n) \notin supported_formats
             THEN /\ Warning("unsupported", n) \in Range(last.res.warnings)
                  /\ n \notin FileNames(last.res.value)
             ELSE IF read_file(join(get_extracted_data_folder, n), splitext(n),
                               data, extracted).raised # ""
             THEN /\ Warning("failed", n) \in Range(last.res.warnings)
                  /\ n \notin FileNames(last.res.value)
             ELSE n \in FileNames(last.res.value)

C9_Witness ==
    /\ ZipIngested
    /\ last.res.exc = ""
    /\ \E n \in EligibleEntries : Warning("unsupported", n) \in Range(last.res.warnings)
    /\ \E n \in EligibleEntries : Warning("failed", n) \in Range(last.res.warnings)
    /\ last.res.value # <<>>
    /\ Len(last.res.processed) = 3

\* C10: every ingestor rejects a path whose extension is not the one its
\* variant expects with InvalidExtension, and a path with that extension
\* that does not exist with FileNotFound.
C10_PreChecks ==
    last.op = "ingest"
    => IF ~EndsWith(last.path, ExpectedExtension[last.variant])
       THEN last.res.kind = "InvalidExtension"
       ELSE ~exists(last.path, data, extracted)
            => /\ last.res.exc = "FileNotFoundError"
               /\ last.res.kind = "FileNotFound"

\* the step is the one the entry point makes after its loop: save_metadata
\* and the completion message
SaveStep ==
    /\ main.pc = "ingest"
    /\ main.i > Len(main.filtered_file_path)
    /\ main'.pc = "idle"

\* C11: whatever fails while save_metadata persists the batch (creating the
\* folder, opening the file, writing the JSON), the failure is a warning
\* only: the call returns, the run completes, and the batch in memory is the
\* one that was collected.
C11_SaveFailureOnlyWarns ==
    [][SaveStep
       => /\ last'.res.exc = ""
          /\ last'.res.kind = "done"
          /\ last'.res.value = main.metadata_list
          /\ artifact' # Artifact("written", main.metadata_list)
                => last'.res.warnings # <<>>]_vars

\* C12: metadata.json is replaced atomically: after every step it holds the
\* complete batch it held before or the complete batch of the run, never an
\* empty or partly written one.
C12_ArtifactReplacedAtomically ==
    [][\/ artifact' = artifact
       \/ artifact' = Artifact("written", main.metadata_list)]_vars

\* the entry point is about to ingest a top-level file that is not an
\* archive, and the ingestion of that file fails
StandaloneFails ==
    /\ main.pc = "ingest"
    /\ main.i <= Len(main.filtered_file_path)
    /\ main.file_extensions[main.i] # ext_zip
    /\ ingest(main.data_ingestors[main.i], main.filtered_file_path[main.i],
              data, extracted, <<>>).exc # ""

\* C13: in the entry point the failure of the ingestion of a top-level file
\* that is not an archive is not caught and ends the run: the loop is left,
\* no later file is ingested, nothing is saved and the completion message is
\* not reached.
C13_StandaloneFailureAborts ==
    [][(StandaloneFails /\ main' # main)
       => /\ main'.pc = "idle"
          /\ last'.op = "main"
          /\ last'.path = main.filtered_file_path[main.i]
          /\ last'.res.exc = "ValueError"
          /\ last'.res.kind # "done"
          /\ artifact' = artifact
          /\ extracted' = extracted]_vars

C13_Witness ==
    /\ main.pc = "idle"
    /\ last.op = "main"
    /\ last.path = join(get_data_folder, n_bad)
    /\ last.res.kind = "IngestionError"
    /\ n_sales \in data
    /\ artifact.state = "written"

\* the outcome of a read_file call is the one of the given reader: its
\* table with the given reload recipe, or its failure
ReadBy(out, df, function, arguments) ==
    IF df.ok
    THEN /\ out.raised = ""
         /\ out.df = df
         /\ out.import_instructions = [function |-> function, arguments |-> arguments]
    ELSE /\ out.raised \in {"NoSuchFile", "ParseError"}
         /\ out.df = ReaderError
         /\ out.import_instructions = NoInstructions

\* C14: read_file chooses the reader by the declared extension alone,
\* whatever the file holds: .csv a comma-delimited read, .txt a
\* tab-delimited read, .xlsx an Excel read, .parquet a Parquet read, .json a
\* JSON read, each with the reload recipe of that reader and the given path
\* (and the tab delimiter only for .txt); any other extension fails with
\* UnsupportedFormat and returns nothing.
C14_ReadFileDispatch ==
    last.op = "read_file"
    => LET c   == GivenFile
           out == last.res
       IN  CASE last.ext = ext_csv ->
                   ReadBy(out, pd_read_csv(c, comma), "pd.read_csv",
                          "filepath_or_buffer" :> last.path)
             [] last.ext = ext_txt ->
                   ReadBy(out, pd_read_csv(c, tab), "pd.read_csv",
                          ("filepath_or_buffer" :> last.path) @@ ("delimiter" :> tab))
             [] last.ext = ext_xlsx ->
                   ReadBy(out, pd_read_excel(c), "pd.read_excel", "io" :> last.path)
             [] last.ext = ext_parquet ->
                   ReadBy(out, pd_read_parquet(c), "pd.read_parquet",
                          "path" :> last.path)
             [] last.ext = ext_json ->
                   ReadBy(out, pd_read_json(c), "pd.read_json",
                          "path_or_buf" :> last.path)
             [] OTHER ->
                   /\ out.raised = "UnsupportedFormat"
                   /\ out.df = ReaderError
                   /\ out.import_instructions = NoInstructions

C14_Witness ==
    /\ last.op = "read_file"
    /\ last.ext = ext_csv
    /\ last.path = join(get_data_folder, n_jtxt)
    /\ GivenFile.kind = "json"
    /\ last.res.raised = ""
    /\ last.res.import_instructions.function = "pd.read_csv"

\* a name that starts with '.' or with '_'
Reserved(name) == name # <<>> /\ Head(name) \in {".", "_"}

\* C15: under the entry point no name that starts with '.' or '_' gets
\* anywhere: not into the list of top-level files, not into the entries a
\* ZIP ingestion processes, not to the format reader, and so not into the
\* batch that is collected and written.
C15_NoReservedEntries ==
    /\ \A k \in 1..Len(main.filtered_file_path) :
          ~Reserved(basename(main.filtered_file_path[k]))
    /\ \A k \in 1..Len(main.metadata_list) :
          ~Reserved(main.metadata_list[k].file_name)
    /\ last.op \in {"ingest", "main"}
          => /\ ~Reserved(basename(last.path))
             /\ \A n \in Range(last.res.processed) : ~Reserved(n)
    /\ \A k \in 1..Len(artifact.batch) : ~Reserved(artifact.batch[k].file_name)

C15_Witness ==
    /\ n_cache \in data
    /\ n_bzip \in data
    /\ extracted[m_hidden] # Absent
    /\ runLog # <<>>
    /\ artifact.state = "written"
    /\ artifact.batch # <<>>

\* C16: when the format reader fails under a per-format ingestor, the
\* ingestor raises an ingestion failure that carries the cause and names
\* the file: its path or its file name is in the message.
C16_FailureNamesFile ==
    (/\ last.op = "ingest"
     /\ last.variant # "ZipDataIngestor"
     /\ last.res.kind = "IngestionError")
    => /\ last.res.exc = "ValueError"
       /\ last.res.cause \in {"ParseError", "NoSuchFile"}
       /\ \E k \in 1..Len(last.res.message) :
             last.res.message[k] \in {last.path, basename(last.path)}

\* C17: in the entry point metadata.json is written to by the one call of
\* save_metadata that follows the loop, when the factory has given an
\* ingestor for every file found and every ingestion has returned, and that
\* call ends the run; a run that ends earlier, on an unsupported extension
\* or on an ingestion that fails, leaves metadata.json as it was.
C17_SaveOnlyAfterAllIngests ==
    [][/\ artifact' # artifact
          => /\ SaveStep
             /\ Len(main.data_ingestors) = Len(main.filtered_file_path)
             /\ \A k \in 1..Len(main.data_ingestors) :
                   main.data_ingestors[k] = ExpectedVariant[main.file_extensions[k]]
             /\ main.i = Len(main.filtered_file_path) + 1
       /\ (main'.pc = "idle" /\ ~SaveStep) => artifact' = artifact]_vars

C17_Witness ==
    /\ main.pc = "idle"
    /\ last.op = "main"
    /\ last.res.kind = "UnsupportedFormat"
    /\ n_notes \in data
    /\ n_sales \in data
    /\ artifact.state = "written"

====
